---- MODULE Spec2Model ----
(***************************************************************************)
(* Model of the books API worker (src/src/index.js): the fetch handler,    *)
(* its gates (size, rate limit, content type), its routes, validateBook,   *)
(* and the books table it reads and writes through the D1 binding.         *)
(*                                                                         *)
(* Several invocations of fetch run concurrently; each await in the code   *)
(* is a point where another invocation, or the store, may take a step.     *)
(***************************************************************************)
EXTENDS Integers, Sequences, FiniteSets, Bags, TLC

(***************************************************************************)
(* JavaScript values as they arrive in a parsed JSON body.                 *)
(*                                                                         *)
(* A value is a record of one shape.  t is what typeof distinguishes       *)
(* (with null kept apart).  A number is num plus a fraction when whole is  *)
(* FALSE (num is the value truncated toward zero).  A string is lead white *)
(* space characters, a core of digs digits, hyps hyphens and oth other     *)
(* characters, and trail white space characters; numeric says that the     *)
(* text after the leading white space begins with a decimal numeral, whose *)
(* value is num, and whole that the core is nothing but that numeral.      *)
(***************************************************************************)
JsUndefined ==
    [t |-> "undefined", num |-> 0, numeric |-> FALSE, whole |-> FALSE,
     lead |-> 0, digs |-> 0, hyps |-> 0, oth |-> 0, trail |-> 0]

JsNull ==
    [t |-> "null", num |-> 0, numeric |-> FALSE, whole |-> FALSE,
     lead |-> 0, digs |-> 0, hyps |-> 0, oth |-> 0, trail |-> 0]

\* the number n when isWhole, and n plus a fraction (n + 0.5) otherwise
JsNumber(n, isWhole) ==
    [t |-> "number", num |-> n, numeric |-> TRUE, whole |-> isWhole,
     lead |-> 0, digs |-> 0, hyps |-> 0, oth |-> 0, trail |-> 0]

\* a string of `ws` white space characters, k other characters, `ws2` white space
JsText(ws, k, ws2) ==
    [t |-> "string", num |-> 0, numeric |-> FALSE, whole |-> FALSE,
     lead |-> ws, digs |-> 0, hyps |-> 0, oth |-> k, trail |-> ws2]

JsEmptyString == JsText(0, 0, 0)

JsTrue ==
    [t |-> "boolean", num |-> 1, numeric |-> FALSE, whole |-> FALSE,
     lead |-> 0, digs |-> 0, hyps |-> 0, oth |-> 0, trail |-> 0]

RECURSIVE NumDigits(_)
\* how many decimal digits the numeral of n >= 0 has
NumDigits(n) == IF n < 10 THEN 1 ELSE 1 + NumDigits(n \div 10)

\* the string that is the decimal numeral of n >= 0 followed by `junk` other characters
JsNumeral(n, junk) ==
    [t |-> "string", num |-> n, numeric |-> TRUE, whole |-> (junk = 0),
     lead |-> 0, digs |-> NumDigits(n), hyps |-> 0, oth |-> junk, trail |-> 0]

\* a string of d zero digits and h hyphens, beginning with a digit ("0-00-0...")
JsZeros(d, h) ==
    [t |-> "string", num |-> 0, numeric |-> TRUE, whole |-> (h = 0),
     lead |-> 0, digs |-> d, hyps |-> h, oth |-> 0, trail |-> 0]

\* the string "-n", n >= 1
JsNegative(n) ==
    [t |-> "string", num |-> 0 - n, numeric |-> TRUE, whole |-> TRUE,
     lead |-> 0, digs |-> NumDigits(n), hyps |-> 1, oth |-> 0, trail |-> 0]

TypeOf(v) == IF v.t = "null" THEN "object" ELSE v.t

\* String.prototype.length
Length(v) == v.lead + v.digs + v.hyps + v.oth + v.trail

\* String.prototype.trim.  A string of white space only is kept as lead alone.
Trim(v) == [v EXCEPT !.lead = 0, !.trail = 0]

\* JavaScript truthiness (!!v)
Truthy(v) ==
    CASE v.t = "undefined" -> FALSE
      [] v.t = "null" -> FALSE
      [] v.t = "number" -> ~(v.num = 0 /\ v.whole)
      [] v.t = "string" -> Length(v) > 0
      [] v.t = "boolean" -> v.num = 1
      [] OTHER -> FALSE

\* v === ''
IsEmptyString(v) == v.t = "string" /\ Length(v) = 0

\* parseInt(v): nan, or the integer val
ParseInt(v) ==
    IF v.numeric THEN [nan |-> FALSE, val |-> v.num] ELSE [nan |-> TRUE, val |-> 0]

(***************************************************************************)
(* The characters of a value.  A text is written with its white space as   *)
(* spaces, its numeral (or its digits as zeros), its hyphens, and its      *)
(* other characters as the letter x; a search term is given by its         *)
(* characters.                                                             *)
(***************************************************************************)
Digits == <<"0", "1", "2", "3", "4", "5", "6", "7", "8", "9">>

IsDigit(ch) == \E d \in 1..10 : Digits[d] = ch

RECURSIVE Decimal(_)
\* String(n), n >= 0
Decimal(n) == IF n < 10 THEN <<Digits[n + 1]>> ELSE Decimal(n \div 10) \o <<Digits[(n % 10) + 1]>>

\* k times the character ch
Repeat(ch, k) == [i \in 1..k |-> ch]

\* the characters of a string, of a number as the store casts it to text;
\* none for null and undefined
Spelling(v) ==
    CASE v.t = "string" ->
            Repeat(" ", v.lead)
            \o (IF v.num < 0 THEN <<"-">> \o Decimal(0 - v.num)
                ELSE (IF v.numeric /\ v.digs = NumDigits(v.num)
                      THEN Decimal(v.num) ELSE Repeat("0", v.digs))
                     \o Repeat("-", v.hyps))
            \o Repeat("x", v.oth) \o Repeat(" ", v.trail)
      [] v.t = "number" ->
            (IF v.num < 0 THEN <<"-">> \o Decimal(0 - v.num) ELSE Decimal(v.num))
            \o (IF v.whole THEN <<>> ELSE <<".", "5">>)
      [] OTHER -> <<>>

RECURSIVE NumeralValue(_, _)
\* the value of the decimal numeral chars begins with, after the value acc
NumeralValue(chars, acc) ==
    IF chars = <<>> \/ ~IsDigit(Head(chars)) THEN acc
    ELSE NumeralValue(Tail(chars),
                      10 * acc + (CHOOSE d \in 0..9 : Digits[d + 1] = Head(chars)))

\* the string with these characters, none of them white space
JsString(chars) ==
    [t |-> "string",
     num |-> NumeralValue(chars, 0),
     numeric |-> chars # <<>> /\ IsDigit(Head(chars)),
     whole |-> chars # <<>> /\ \A i \in 1..Len(chars) : IsDigit(chars[i]),
     lead |-> 0,
     digs |-> Cardinality({i \in 1..Len(chars) : IsDigit(chars[i])}),
     hyps |-> Cardinality({i \in 1..Len(chars) : chars[i] = "-"}),
     oth |-> Cardinality({i \in 1..Len(chars) : ~IsDigit(chars[i]) /\ chars[i] # "-"}),
     trail |-> 0]

\* ASCII case folding, as LIKE compares letters
Fold(ch) == CASE ch = "X" -> "x" [] ch = "Y" -> "y" [] OTHER -> ch

RECURSIVE LikeMatches(_, _)
\* text LIKE pattern: % stands for any characters, _ for any one character,
\* every other character for itself in either case
LikeMatches(pattern, text) ==
    IF pattern = <<>> THEN text = <<>>
    ELSE IF Head(pattern) = "%"
    THEN LikeMatches(Tail(pattern), text)
         \/ (text # <<>> /\ LikeMatches(pattern, Tail(text)))
    ELSE /\ text # <<>>
         /\ (Head(pattern) = "_" \/ Fold(Head(pattern)) = Fold(Head(text)))
         /\ LikeMatches(Tail(pattern), Tail(text))

\* column LIKE ? : NULL, hence no match, when the column is NULL
SqlLike(stored, pattern) == stored.t # "null" /\ LikeMatches(pattern, Spelling(stored))

(***************************************************************************)
(* Raised values.  cls is the class instanceof sees; "value" is a thrown   *)
(* value that is no Error and has no message property (a string, a plain   *)
(* object), "nullish" a thrown null or undefined.                          *)
(***************************************************************************)
NoMessage == "<undefined>"

NoError == [cls |-> "none", msg |-> ""]

ValidationError(m) == [cls |-> "ValidationError", msg |-> m]

NotFoundError(m) == [cls |-> "NotFoundError", msg |-> m]

RateLimitError(m) == [cls |-> "RateLimitError", msg |-> m]

PlainError(m) == [cls |-> "Error", msg |-> m]

TypeError(m) == [cls |-> "TypeError", msg |-> m]

SyntaxError(m) == [cls |-> "SyntaxError", msg |-> m]

ThrownValue == [cls |-> "value", msg |-> NoMessage]

ThrownNullish == [cls |-> "nullish", msg |-> NoMessage]

(***************************************************************************)
(* validateBook                                                            *)
(***************************************************************************)
Fields == <<"title", "author", "year", "isbn", "genre", "description">>

ALLOWED_UPDATE_FIELDS == {Fields[i] : i \in 1..Len(Fields)}

MaxTitle == 500

MaxAuthor == 200

MaxGenre == 100

MaxDescription == 5000

\* new Date().getFullYear()
currentYear == 2026

MaxYear == currentYear + 10

\* /^(?:\d{10}|\d{13}|[\d-]{13,17})$/.test(v), v a string
IsbnMatches(v) ==
    /\ v.lead = 0 /\ v.trail = 0 /\ v.oth = 0
    /\ \/ v.hyps = 0 /\ v.digs \in {10, 13}
       \/ v.digs + v.hyps \in 13..17

\* MissingRequired with the title alone required
MissingRequiredTitleOnly(book) == IF ~Truthy(book.title) THEN "title" ELSE ""

\* required.filter((field) => !book[field]).join(', ')
MissingRequired(book) ==
    CASE ~Truthy(book.title) /\ ~Truthy(book.author) -> "title, author"
      [] ~Truthy(book.title) -> "title"
      [] ~Truthy(book.author) -> "author"
      [] OTHER -> ""

\* value !== null && value !== undefined && value !== ''
Provided(v) == v.t # "null" /\ v.t # "undefined" /\ ~IsEmptyString(v)

\* The error validateBook(book, isUpdate) throws, NoError when it returns.
validateBook(book, isUpdate) ==
    IF ~isUpdate /\ MissingRequired(book) # ""
    THEN ValidationError("Missing required fields: " \o MissingRequired(book))
    ELSE IF book.title.t # "undefined"
            /\ (TypeOf(book.title) # "string" \/ Length(Trim(book.title)) = 0)
    THEN ValidationError("Title must be a non-empty string")
    ELSE IF book.title.t # "undefined" /\ Length(book.title) > MaxTitle
    THEN ValidationError("Title must be 500 characters or less")
    ELSE IF book.author.t # "undefined"
            /\ (TypeOf(book.author) # "string" \/ Length(Trim(book.author)) = 0)
    THEN ValidationError("Author must be a non-empty string")
    ELSE IF book.author.t # "undefined" /\ Length(book.author) > MaxAuthor
    THEN ValidationError("Author must be 200 characters or less")
    ELSE IF Provided(book.year)
            /\ (ParseInt(book.year).nan \/ ParseInt(book.year).val < 0
                  \/ ParseInt(book.year).val > MaxYear)
    THEN ValidationError("Year must be a valid number between 0 and ${currentYear + 10}")
    ELSE IF Truthy(book.isbn) /\ TypeOf(book.isbn) # "string"
    THEN ValidationError("ISBN must be a string")
    ELSE IF Truthy(book.isbn) /\ ~IsbnMatches(book.isbn)
    THEN ValidationError("Invalid ISBN format")
    ELSE IF Provided(book.description) /\ TypeOf(book.description) # "string"
    THEN ValidationError("Description must be a string")
    ELSE IF Provided(book.description) /\ Length(book.description) > MaxDescription
    THEN ValidationError("Description must be 5000 characters or less")
    ELSE IF Provided(book.genre) /\ TypeOf(book.genre) # "string"
    THEN ValidationError("Genre must be a string")
    ELSE IF Provided(book.genre) /\ Length(book.genre) > MaxGenre
    THEN ValidationError("Genre must be 100 characters or less")
    ELSE NoError

(***************************************************************************)
(* Book rows and the values the handler binds.                             *)
(***************************************************************************)
BookOf(title, author, year, isbn, genre, description) ==
    [title |-> title, author |-> author, year |-> year, isbn |-> isbn,
     genre |-> genre, description |-> description]

\* results: [book] of an empty result set
NoBook ==
    BookOf(JsUndefined, JsUndefined, JsUndefined, JsUndefined, JsUndefined, JsUndefined)

\* Column affinity of the books table: year is INTEGER, the other columns TEXT.
\* A text that is an integer numeral becomes that integer in an INTEGER
\* column; a number becomes its numeral in a TEXT column.
Affinity(col, v) ==
    IF col = "year"
    THEN IF v.t = "string" /\ v.numeric /\ v.whole /\ v.lead = 0 /\ v.trail = 0
         THEN JsNumber(v.num, TRUE)
         ELSE v
    ELSE IF v.t = "number" /\ v.num >= 0
         THEN [t |-> "string", num |-> v.num, numeric |-> TRUE, whole |-> v.whole,
               lead |-> 0, digs |-> NumDigits(v.num) + (IF v.whole THEN 0 ELSE 1),
               hyps |-> 0, oth |-> (IF v.whole THEN 0 ELSE 1), trail |-> 0]
         ELSE v

\* the row a statement leaves, given the values bound to its columns
Stored(b) == [f \in DOMAIN b |-> Affinity(f, b[f])]

\* book.genre ? book.genre.trim() : null
TrimOrNull(v) == IF Truthy(v) THEN Trim(v) ELSE JsNull

\* book.year || null
ValueOrNull(v) == IF Truthy(v) THEN v ELSE JsNull

\* the six values the INSERT binds, in column order
InsertValues(book) ==
    BookOf(Trim(book.title), Trim(book.author), ValueOrNull(book.year),
           ValueOrNull(book.isbn), TrimOrNull(book.genre), TrimOrNull(book.description))

\* the value the UPDATE binds for one key of the payload
UpdateValue(v) ==
    IF v.t = "string" /\ Length(Trim(v)) > 0 THEN Trim(v)
    ELSE IF IsEmptyString(v) THEN JsNull
    ELSE v

\* UpdateFields without the allow-list
UpdateFieldsWithUnknown(body) ==
    {f \in ALLOWED_UPDATE_FIELDS : body.fields[f].t # "undefined"} \cup body.extra

\* Object.keys(updates).filter((key) => ALLOWED_UPDATE_FIELDS.includes(key))
UpdateFields(body) ==
    {f \in ALLOWED_UPDATE_FIELDS : body.fields[f].t # "undefined"}

\* { ...book, ...updates }
Merged(book, body) ==
    [f \in ALLOWED_UPDATE_FIELDS |->
        IF body.fields[f].t # "undefined" THEN body.fields[f] ELSE book[f]]

\* UpdatedRow of a statement that sets every column, NULL where the payload
\* names none
UpdatedRowReplacing(row, body) ==
    [f \in ALLOWED_UPDATE_FIELDS |->
        IF f \in UpdateFields(body)
        THEN Affinity(f, UpdateValue(body.fields[f]))
        ELSE JsNull]

\* the row after UPDATE books SET <updateFields> WHERE id = ?
UpdatedRow(row, body) ==
    [f \in ALLOWED_UPDATE_FIELDS |->
        IF f \in UpdateFields(body)
        THEN Affinity(f, UpdateValue(body.fields[f]))
        ELSE row[f]]

(***************************************************************************)
(* Requests                                                                *)
(***************************************************************************)
\* request.headers.get(name) of a header that was not sent
NoHeader == "<null>"

\* a body that has not been sent, or is not read
NoBody == [kind |-> "none", fields |-> NoBook, extra |-> {}]

\* a body that is a JSON object with these allow-listed keys (an undefined
\* field is a key the object does not have) and these other keys
ObjectBody(fields, extra) == [kind |-> "object", fields |-> fields, extra |-> extra]

\* the body `null`
NullBody == [kind |-> "null", fields |-> NoBook, extra |-> {}]

\* a body that is not JSON
MalformedBody == [kind |-> "malformed", fields |-> NoBook, extra |-> {}]

\* url.searchParams of a request without page, limit, genre or year
NoParams == [page |-> JsNull, limit |-> JsNull, genre |-> JsNull, year |-> JsNull]

NoReq ==
    [method |-> "none", route |-> "other", id |-> 0, clen |-> JsNull,
     ctype |-> NoHeader, limiter |-> FALSE, q |-> JsNull, term |-> <<>>,
     params |-> NoParams, body |-> NoBody]

\* contentType.includes('application/json')
IncludesJson(ct) == ct \in {"application/json", "application/json; charset=utf-8"}

MaxBodyBytes == 1048576

MaxQuery == 200

\* request.method === 'OPTIONS'
IsPreflight(q) == q.method = "OPTIONS"

\* TooLarge with the limit taken for 10 MiB
TooLargeTenfold(q) ==
    Truthy(q.clen) /\ ~ParseInt(q.clen).nan /\ ParseInt(q.clen).val > 10 * MaxBodyBytes

\* contentLength && parseInt(contentLength) > 1048576
TooLarge(q) ==
    Truthy(q.clen) /\ ~ParseInt(q.clen).nan /\ ParseInt(q.clen).val > MaxBodyBytes

\* validateContentType with the header required of every method
validateContentTypeAnyMethod(q) ==
    IF q.ctype = NoHeader \/ ~IncludesJson(q.ctype)
    THEN ValidationError("Content-Type must be application/json")
    ELSE NoError

\* validateContentType with the header required of POST alone
validateContentTypePostOnly(q) ==
    IF q.method = "POST" /\ (q.ctype = NoHeader \/ ~IncludesJson(q.ctype))
    THEN ValidationError("Content-Type must be application/json")
    ELSE NoError

\* the error validateContentType(request) throws, NoError when it returns
validateContentType(q) ==
    IF q.method \in {"POST", "PUT"} /\ (q.ctype = NoHeader \/ ~IncludesJson(q.ctype))
    THEN ValidationError("Content-Type must be application/json")
    ELSE NoError

\* safeParseInt(match.pathname.groups.id, 0)
PathId(q) == IF q.id > 0 THEN q.id ELSE 0

(***************************************************************************)
(* Responses                                                               *)
(***************************************************************************)
NoCache == "<none>"

ShortCache == "public, max-age=60, stale-while-revalidate=120"

LongCache == "public, max-age=300, stale-while-revalidate=600"

\* the pagination block of a response that has none
NoPagination == [total |-> 0, page |-> 0, limit |-> 0, pages |-> 0]

NoResponse ==
    [status |-> 0, kind |-> "none", msg |-> "", id |-> 0, book |-> NoBook,
     cache |-> NoCache, data |-> <<>>, count |-> 0, pagination |-> NoPagination]

\* createResponse(null, status)
EmptyResponse(status) == [NoResponse EXCEPT !.status = status, !.kind = "empty"]

\* createResponse({ error: message }, status)
ErrorResponse(status, message) ==
    [NoResponse EXCEPT !.status = status, !.kind = "error", !.msg = message]

\* createResponse(row, status, headers) of a row read back from the table;
\* an empty result set gives createResponse(undefined, ...), whose body is empty
BookResponse(status, id, row, cache) ==
    IF row = NoBook
    THEN [NoResponse EXCEPT !.status = status, !.kind = "undefined", !.cache = cache]
    ELSE [NoResponse EXCEPT !.status = status, !.kind = "book", !.id = id,
                            !.book = row, !.cache = cache]

\* createResponse of the stats and health bodies
DataResponse(kind, cache) ==
    [NoResponse EXCEPT !.status = 200, !.kind = kind, !.cache = cache]

\* ListResponse without the Cache-Control header
ListResponseUncached(results, pagination) ==
    [NoResponse EXCEPT !.status = 200, !.kind = "list",
                       !.data = results, !.pagination = pagination]

\* createResponse({ data: results, pagination: {...} }, 200, { 'Cache-Control': ... })
ListResponse(results, pagination) ==
    [NoResponse EXCEPT !.status = 200, !.kind = "list", !.cache = ShortCache,
                       !.data = results, !.pagination = pagination]

\* createResponse({ query, results, count: results.length }, 200, { 'Cache-Control': ... })
SearchResponse(results) ==
    [NoResponse EXCEPT !.status = 200, !.kind = "search", !.cache = ShortCache,
                       !.data = results, !.count = Len(results)]

(***************************************************************************)
(* The statements the handler builds.  A statement text is the sequence of *)
(* its pieces, each placeholder a piece "?" of its own; the bound values   *)
(* are JavaScript values.                                                  *)
(***************************************************************************)
\* safeParseInt(value, defaultValue)
safeParseInt(value, defaultValue) ==
    LET parsed == ParseInt(value)
    IN  IF ~parsed.nan /\ parsed.val > 0 THEN parsed.val ELSE defaultValue

\* safeParseInt(params.get('year'), null) === null
NoYear == 0

Min(a, b) == IF a < b THEN a ELSE b

\* Math.ceil(count / limit), count >= 0 and limit >= 1
Ceil(count, limit) == (count + limit - 1) \div limit

\* EffectiveLimit without the cap
EffectiveLimitUncapped(value) == safeParseInt(value, 10)

\* Math.min(safeParseInt(params.get('limit'), 10), 100)
EffectiveLimit(value) == Min(safeParseInt(value, 10), 100)

\* query.replace('*', 'COUNT(*) as count'): the first '*' is replaced
ReplaceStar(text) ==
    [i \in 1..Len(text) |->
        IF text[i] = "*" /\ \A j \in 1..(i - 1) : text[j] # "*"
        THEN "COUNT(*) as count"
        ELSE text[i]]

NoList ==
    [error |-> NoError, countQuery |-> <<>>, countBindings |-> <<>>, query |-> <<>>,
     bindings |-> <<>>, page |-> 0, limit |-> 0, offset |-> 0, pages |-> 0]

\* case 'GET' of the books collection: the two statements, their bindings
\* and the pagination block, for the query parameters and the count the
\* first statement returns
ListStatements(params, count) ==
    LET page == safeParseInt(params.page, 1)
        limit == EffectiveLimit(params.limit)
        offset == (page - 1) * limit
        genre == params.genre
        year == safeParseInt(params.year, NoYear)
        query == <<"SELECT", "*", "FROM books WHERE 1=1">>
                 \o (IF Truthy(genre) THEN <<"AND genre =", "?">> ELSE <<>>)
                 \o (IF year # NoYear THEN <<"AND year =", "?">> ELSE <<>>)
        bindings == (IF Truthy(genre) THEN <<genre>> ELSE <<>>)
                    \o (IF year # NoYear THEN <<JsNumber(year, TRUE)>> ELSE <<>>)
    IN  IF Truthy(genre) /\ Length(genre) > MaxGenre
        THEN [NoList EXCEPT !.error = ValidationError("Genre parameter too long")]
        ELSE [error |-> NoError,
              countQuery |-> ReplaceStar(query),
              countBindings |-> bindings,
              query |-> query \o <<"ORDER BY id ASC LIMIT", "?", "OFFSET", "?">>,
              bindings |-> bindings \o <<JsNumber(limit, TRUE), JsNumber(offset, TRUE)>>,
              page |-> page, limit |-> limit, offset |-> offset,
              pages |-> Ceil(count, limit)]

\* OrderedUpdateFields without the allow-list
UnfilteredUpdateFields(keys) == keys

\* Object.keys(updates).filter((key) => ALLOWED_UPDATE_FIELDS.includes(key)),
\* keys being Object.keys(updates) in the order of the payload
OrderedUpdateFields(keys) == SelectSeq(keys, LAMBDA k : k \in ALLOWED_UPDATE_FIELDS)

RECURSIVE SetClause(_)
\* updateFields.map((key) => `${key} = ?`).join(', ')
SetClause(fs) ==
    IF fs = <<>> THEN <<>>
    ELSE IF Len(fs) = 1 THEN <<fs[1], "=", "?">>
    ELSE <<fs[1], "=", "?", ",">> \o SetClause(Tail(fs))

NoStatement == [error |-> NoError, text |-> <<>>, values |-> <<>>]

\* case 'PUT' from the filter of the keys to the bound UPDATE statement
UpdateStatement(keys, updates, id) ==
    LET fs == OrderedUpdateFields(keys)
    IN  IF Len(fs) = 0
        THEN [NoStatement EXCEPT !.error = ValidationError("No valid fields to update")]
        ELSE [error |-> NoError,
              text |-> <<"UPDATE books SET">> \o SetClause(fs) \o <<"WHERE id =", "?">>,
              values |-> [i \in 1..Len(fs) |-> UpdateValue(updates[fs[i]])]
                         \o <<JsNumber(id, TRUE)>>]

(***************************************************************************)
(* One invocation of fetch                                                 *)
(***************************************************************************)
NewCall ==
    \* pc: where the invocation is; book, lastId: its locals; resp, escaped: how
    \* it ended; timer: a timeout is racing the awaited statement; the rest is
    \* what it did: log events, limiter calls, checks made, statements issued,
    \* whether its id was already deleted when it arrived, what its
    \* collaborators did to it, and the value its catch block caught
    [pc |-> "entry", req |-> NoReq, book |-> NoBook, lastId |-> 0,
     resp |-> NoResponse, escaped |-> FALSE, timer |-> FALSE,
     started |-> 0, completed |-> 0, limiterCalls |-> 0, ctChecked |-> FALSE,
     parsed |-> FALSE, validated |-> FALSE, stmts |-> <<>>, late |-> FALSE,
     trouble |-> "none", raised |-> NoError, count |-> 0, log |-> <<>>]

\* the keys of the object each console.log or console.error call logs with
\* its event
LogKeys(event) ==
    CASE event = "Request started:" -> {"requestId", "method", "url", "ip", "timestamp"}
      [] event = "Rate limiter error:" -> {"message", "timestamp"}
      [] event = "Book created:" -> {"requestId", "bookId", "timestamp"}
      [] event = "Book updated:" -> {"requestId", "bookId", "updatedFields", "timestamp"}
      [] event = "Book deleted:" -> {"requestId", "bookId", "timestamp"}
      [] event = "Request error:" ->
            {"requestId", "message", "stack", "method", "url", "timestamp"}
      [] event = "Request completed:" -> {"requestId", "duration", "timestamp"}

\* console.log(event, {...}) or console.error(event, {...})
Log(c, event) == [c EXCEPT !.log = Append(@, event)]

\* error.message.includes('timeout')
IncludesTimeout(m) == m \in {"Database query timeout"}

\* error.message.includes('JSON')
IncludesJSON(m) ==
    m \in {"Unexpected token 'x', \"x\" is not valid JSON", "D1_ERROR: malformed JSON"}

\* a return statement before the try block: no finally runs
ReturnBeforeTry(c, r) ==
    [c EXCEPT !.pc = "done", !.resp = r, !.timer = FALSE, !.book = NoBook, !.lastId = 0,
              !.count = 0]

\* the finally block: the 'Request completed' log event
Finally(c) ==
    Log([c EXCEPT !.completed = @ + 1], "Request completed:")

\* a return statement inside the try block
Return(c, r) == Finally(ReturnBeforeTry(c, r))

\* a failure that leaves fetch: the catch block itself threw
Escape(c) ==
    Finally([c EXCEPT !.pc = "done", !.escaped = TRUE, !.timer = FALSE,
                      !.book = NoBook, !.lastId = 0, !.count = 0])

\* Catch with the caught message returned in the 500 response
CatchLeaking(c0, err) ==
    LET c == IF err.cls = "nullish"
             THEN [c0 EXCEPT !.raised = err]
             ELSE Log([c0 EXCEPT !.raised = err], "Request error:")
    IN  IF err.cls = "nullish" THEN Escape(c)
        ELSE IF err.cls = "ValidationError" THEN Return(c, ErrorResponse(400, err.msg))
        ELSE IF err.cls = "NotFoundError" THEN Return(c, ErrorResponse(404, err.msg))
        ELSE IF err.cls = "RateLimitError" THEN Return(c, ErrorResponse(429, err.msg))
        ELSE IF err.msg = NoMessage THEN Escape(c)
        ELSE IF IncludesTimeout(err.msg) THEN Return(c, ErrorResponse(504, "Request timeout"))
        ELSE IF IncludesJSON(err.msg)
        THEN Return(c, ErrorResponse(400, "Invalid JSON in request body"))
        ELSE Return(c, ErrorResponse(500, err.msg))

\* the catch block of fetch, entered with the raised value err
Catch(c0, err) ==
    LET c == IF err.cls = "nullish"
             THEN [c0 EXCEPT !.raised = err]
             ELSE Log([c0 EXCEPT !.raised = err], "Request error:")
    IN  IF err.cls = "nullish"
        THEN Escape(c)    \* error.message of null or undefined, in the error log
        ELSE IF err.cls = "ValidationError" THEN Return(c, ErrorResponse(400, err.msg))
        ELSE IF err.cls = "NotFoundError" THEN Return(c, ErrorResponse(404, err.msg))
        ELSE IF err.cls = "RateLimitError" THEN Return(c, ErrorResponse(429, err.msg))
        ELSE IF err.msg = NoMessage
        THEN Escape(c)    \* error.message.includes of undefined
        ELSE IF IncludesTimeout(err.msg) THEN Return(c, ErrorResponse(504, "Request timeout"))
        ELSE IF IncludesJSON(err.msg)
        THEN Return(c, ErrorResponse(400, "Invalid JSON in request body"))
        ELSE Return(c, ErrorResponse(500, "An unexpected error occurred"))

\* a statement is handed to the store and awaited; timed when it goes through
\* executeQuery, which races it against the timeout
Await(c, pc, names, timed) ==
    [c EXCEPT !.pc = pc, !.stmts = @ \o names, !.timer = timed]

\* await request.json(): the error it throws, NoError when the body parses
ParseBody(q) ==
    IF q.body.kind \in {"malformed", "none"}
    THEN SyntaxError("Unexpected token 'x', \"x\" is not valid JSON")
    ELSE NoError

\* case 'POST' of the books collection, up to the await of stmt.run()
PostBook(c) ==
    LET q == c.req
        c1 == [c EXCEPT !.parsed = TRUE]
        c2 == [c1 EXCEPT !.validated = TRUE]
    IN  IF ParseBody(q) # NoError THEN Catch(c1, ParseBody(q))
        ELSE IF q.body.kind = "null"
        THEN Catch(c2, TypeError("Cannot read properties of null (reading 'title')"))
        ELSE IF validateBook(q.body.fields, FALSE) # NoError
        THEN Catch(c2, validateBook(q.body.fields, FALSE))
        ELSE Await(c2, "insert", <<"INSERT">>, FALSE)

\* case 'PUT' of the single book route, up to the await of the UPDATE's run()
PutBook(c) ==
    LET q == c.req
        c1 == [c EXCEPT !.parsed = TRUE]
        c2 == [c1 EXCEPT !.validated = TRUE]
    IN  IF ParseBody(q) # NoError THEN Catch(c1, ParseBody(q))
        ELSE IF q.body.kind = "null"
        THEN Catch(c1, TypeError("Cannot convert undefined or null to object"))
        ELSE IF UpdateFields(q.body) = {}
        THEN Catch(c1, ValidationError("No valid fields to update"))
        ELSE IF validateBook(Merged(c.book, q.body), TRUE) # NoError
        THEN Catch(c2, validateBook(Merged(c.book, q.body), TRUE))
        ELSE Await(c2, "update", <<"UPDATE">>, FALSE)

\* AfterLookup with the existence check made for GET alone
AfterLookupGetOnly(c, row) ==
    LET q == c.req
        c1 == [c EXCEPT !.book = row, !.timer = FALSE]
    IN  CASE q.method = "GET" ->
                IF row = NoBook THEN Catch(c1, NotFoundError("Book not found"))
                ELSE Return(c1, BookResponse(200, PathId(q), row, LongCache))
          [] q.method = "PUT" -> PutBook(c1)
          [] q.method = "DELETE" -> Await(c1, "delete", <<"DELETE">>, FALSE)
          [] OTHER -> Return(c1, ErrorResponse(405, "Method not allowed"))

\* the single book route after its lookup returned row (NoBook: no row)
AfterLookup(c, row) ==
    LET q == c.req
        c1 == [c EXCEPT !.book = row, !.timer = FALSE]
    IN  IF row = NoBook THEN Catch(c1, NotFoundError("Book not found"))
        ELSE CASE q.method = "GET" -> Return(c1, BookResponse(200, PathId(q), row, LongCache))
               [] q.method = "PUT" -> PutBook(c1)
               [] q.method = "DELETE" -> Await(c1, "delete", <<"DELETE">>, FALSE)
               [] OTHER -> Return(c1, ErrorResponse(405, "Method not allowed"))

\* fetch from validateContentType on, up to its first await or its response
Route(c) ==
    LET q == c.req
        c1 == [c EXCEPT !.ctChecked = TRUE]
    IN  IF validateContentType(q) # NoError THEN Catch(c1, validateContentType(q))
        ELSE CASE q.route = "search" ->
                    IF ~Truthy(q.q)
                    THEN Catch(c1, ValidationError("Search query ?q= is required"))
                    ELSE IF Length(q.q) > MaxQuery
                    THEN Catch(c1, ValidationError("Search query too long (max 200 characters)"))
                    ELSE Await(c1, "search", <<"SEARCH">>, TRUE)
               [] q.route = "collection" ->
                    (CASE q.method = "GET" ->
                            IF ListStatements(q.params, 0).error # NoError
                            THEN Catch(c1, ListStatements(q.params, 0).error)
                            ELSE Await(c1, "count", <<"COUNT">>, TRUE)
                       [] q.method = "POST" -> PostBook(c1)
                       [] OTHER -> Return(c1, ErrorResponse(405, "Method not allowed")))
               [] q.route = "single" ->
                    IF PathId(q) = 0
                    THEN Catch(c1, ValidationError("Invalid book ID"))
                    ELSE Await(c1, "lookup", <<"SELECT">>, TRUE)
               [] q.route = "stats" ->
                    Await(c1, "stats", <<"STATS_TOTAL", "STATS_GENRE", "STATS_YEAR">>, FALSE)
               [] q.route = "health" -> Await(c1, "health", <<"HEALTH">>, FALSE)
               [] OTHER -> Return(c1, ErrorResponse(404, "Not Found"))

\* Enter with the size check made before the OPTIONS short-circuit
EnterSizeFirst(c) ==
    LET q == c.req
        c1 == Log([c EXCEPT !.started = 1], "Request started:")
    IN  IF TooLarge(q)
        THEN ReturnBeforeTry(c1, ErrorResponse(413, "Request body too large (max 1MB)"))
        ELSE IF IsPreflight(q) THEN ReturnBeforeTry(c1, EmptyResponse(204))
        ELSE IF ~q.limiter THEN Route(c1)
        ELSE [c1 EXCEPT !.pc = "limiter", !.limiterCalls = @ + 1]

\* fetch from its entry up to its first await or its response
Enter(c) ==
    LET q == c.req
        c1 == Log([c EXCEPT !.started = 1], "Request started:")
    IN  IF IsPreflight(q) THEN ReturnBeforeTry(c1, EmptyResponse(204))
        ELSE IF TooLarge(q)
        THEN ReturnBeforeTry(c1, ErrorResponse(413, "Request body too large (max 1MB)"))
        ELSE IF ~q.limiter THEN Route(c1)
        ELSE [c1 EXCEPT !.pc = "limiter", !.limiterCalls = @ + 1]

\* checkRateLimit after env.MY_RATE_LIMITER.limit returned { success }
AfterLimit(c, success) ==
    IF success THEN Route(c)
    ELSE Catch(c, RateLimitError("Rate limit exceeded. Please try again later."))

\* checkRateLimit after env.MY_RATE_LIMITER.limit raised err: the failure is
\* logged (error.message is read) and the request goes on
AfterLimitRaised(c, err) ==
    IF err.cls = "nullish"
    THEN Catch(c, TypeError("Cannot read properties of null (reading 'message')"))
    ELSE Route(Log(c, "Rate limiter error:"))

(***************************************************************************)
(* The traffic the model is run on.  Each scenario is a family of requests *)
(* and a degree of concurrency; the state space is the union over them.    *)
(* "gates" sends every method to every route with every combination of     *)
(* headers and limiter configuration, one request at a time, against a     *)
(* limiter and a store that may deny, fail, raise or time out.  "year",    *)
(* "isbn", "genre", "description" and "required" send creations, updates,  *)
(* reads and deletions one at a time, each with the values of one group of *)
(* fields.                                                                 *)
(* "race" sends creations, updates, reads and deletions concurrently.      *)
(* "list" sends creations, deletions and lists of the collection with      *)
(* every combination of the query parameters; "search" sends creations and *)
(* searches.                                                               *)
(***************************************************************************)
\* concurrent invocations of fetch
MaxCalls == 2

\* ids the table assigns before the model stops accepting creations
MaxId == 2

Ids == 1..MaxId

Scenarios ==
    {"gates", "year", "isbn", "genre", "description", "required", "race", "list",
     "search"}

Methods == {"GET", "POST", "PUT", "DELETE", "OPTIONS", "PATCH"}

Routes == {"search", "collection", "single", "stats", "health", "other"}

\* a one-character title, a one-character author
Plain == BookOf(JsText(0, 1, 0), JsText(0, 1, 0), JsUndefined, JsUndefined, JsUndefined, JsUndefined)

\* an object without any of the allow-listed keys
NoFields == NoBook

YearsPosted == {JsNumber(1999, TRUE), JsNumber(1999, FALSE), JsNumber(0, TRUE), JsNumeral(2000, 0)}

YearsPut == {JsNumber(MaxYear, TRUE), JsNumber(MaxYear + 1, TRUE), JsNumeral(12, 3), JsEmptyString}

IsbnsPosted == {JsZeros(10, 0), JsZeros(10, 3), JsText(0, 3, 0)}

IsbnsPut == {JsZeros(13, 0), JsNumber(0, TRUE), JsEmptyString}

GenresPosted == {JsText(0, 7, 0), JsText(3, 0, 0), JsEmptyString}

GenresPut == {JsEmptyString, JsText(2, 0, 0), JsText(1, MaxGenre - 1, 0), JsNull}

DescriptionsPosted == {JsText(0, 7, 0), JsText(3, 0, 0)}

DescriptionsPut == {JsText(1, 3, 1), JsText(0, MaxDescription + 1, 0), JsText(2, 0, 0)}

TitlesPosted ==
    {JsText(1, 1, 1), JsText(0, MaxTitle, 0), JsText(0, MaxTitle + 1, 0), JsUndefined,
     JsNull, JsEmptyString, JsText(2, 0, 0), JsNumber(7, TRUE)}

AuthorsPosted == {JsText(0, 1, 0), JsUndefined, JsEmptyString}

TitlesPut == {JsText(0, 2, 0), JsEmptyString}

AuthorsPut == {JsText(2, MaxAuthor - 2, 0), JsNull}

GateBodies == {ObjectBody(Plain, {}), NullBody, MalformedBody}

\* the bodies a scenario posts to the collection
PostBodies(scn) ==
    CASE scn = "gates" -> GateBodies
      [] scn = "year" -> {ObjectBody([Plain EXCEPT !.year = y], {}) : y \in YearsPosted}
      [] scn = "isbn" -> {ObjectBody([Plain EXCEPT !.isbn = v], {}) : v \in IsbnsPosted}
      [] scn = "genre" -> {ObjectBody([Plain EXCEPT !.genre = v], {}) : v \in GenresPosted}
      [] scn = "description" ->
            {ObjectBody([Plain EXCEPT !.description = v], {}) : v \in DescriptionsPosted}
      [] scn = "required" ->
            {ObjectBody([Plain EXCEPT !.title = v, !.author = w], {}) :
                v \in TitlesPosted, w \in AuthorsPosted}
      [] scn = "race" -> {ObjectBody([Plain EXCEPT !.genre = JsText(0, 7, 0)], {})}

\* the bodies a scenario puts to a single book
PutBodies(scn) ==
    CASE scn = "gates" -> GateBodies
      [] scn = "year" -> {ObjectBody([NoFields EXCEPT !.year = y], {}) : y \in YearsPut}
      [] scn = "isbn" -> {ObjectBody([NoFields EXCEPT !.isbn = v], {}) : v \in IsbnsPut}
      [] scn = "genre" -> {ObjectBody([NoFields EXCEPT !.genre = v], {}) : v \in GenresPut}
      [] scn = "description" ->
            {ObjectBody([NoFields EXCEPT !.description = v], {}) : v \in DescriptionsPut}
      [] scn = "required" ->
            {ObjectBody([NoFields EXCEPT !.title = v], {}) : v \in TitlesPut}
            \cup {ObjectBody([NoFields EXCEPT !.author = v], {}) : v \in AuthorsPut}
            \cup {ObjectBody(NoFields, {"id"}), ObjectBody(NoFields, {}),
                  ObjectBody([NoFields EXCEPT !.title = JsText(0, 2, 0)], {"id"})}
      [] scn = "race" -> {ObjectBody([NoFields EXCEPT !.genre = JsEmptyString], {})}

ContentLengths == {JsNull, JsNumeral(MaxBodyBytes, 0), JsNumeral(MaxBodyBytes + 1, 0)}

ContentTypes == {NoHeader, "application/json", "text/plain"}

\* the bodies sent with method m in the gates scenario
GateBodiesFor(m) == IF m \in {"POST", "PUT"} THEN GateBodies ELSE {NoBody}

\* every method on every route, with every combination of headers
GateRequests ==
    UNION {UNION {
        {[method |-> m, route |-> r, id |-> i, clen |-> cl, ctype |-> ct,
          limiter |-> l, q |-> qq, term |-> Spelling(qq), params |-> NoParams,
          body |-> b] :
            i \in (IF r = "single" THEN 0..1 ELSE {0}), cl \in ContentLengths,
            ct \in ContentTypes, l \in BOOLEAN,
            qq \in (IF r = "search" THEN {JsNull, JsText(0, 1, 0)} ELSE {JsNull}),
            b \in GateBodiesFor(m)} : r \in Routes} : m \in Methods}

\* creations, and updates, reads and deletions of every id
DataRequests(scn) ==
    {[NoReq EXCEPT !.method = "POST", !.route = "collection",
                   !.ctype = "application/json", !.body = b] : b \in PostBodies(scn)}
    \cup {[NoReq EXCEPT !.method = "PUT", !.route = "single", !.id = i,
                        !.ctype = "application/json", !.body = b] :
            i \in Ids, b \in PutBodies(scn)}
    \cup {[NoReq EXCEPT !.method = m, !.route = "single", !.id = i] :
            m \in {"GET", "DELETE"}, i \in Ids}

YearRequests == DataRequests("year")

IsbnRequests == DataRequests("isbn")

GenreRequests == DataRequests("genre")

DescriptionRequests == DataRequests("description")

RequiredRequests == DataRequests("required")

RaceRequests == DataRequests("race")

GenresListed == {JsText(0, 7, 0), JsText(0, 5, 0)}

YearsListed == {JsNumber(1999, TRUE), JsNumeral(0, 0)}

GenreFilters == {JsNull, JsText(0, 7, 0), JsText(0, MaxGenre + 1, 0)}

YearFilters == {JsNull, JsNumeral(1999, 0), JsNumeral(0, 0), JsNumeral(1999, 3)}

PageFilters == {JsNull, JsNumeral(2, 0)}

LimitFilters == {JsNull, JsNumeral(1, 0)}

\* creations with a genre and a year, deletions, and lists of the collection
\* with every combination of the four query parameters
ListRequests ==
    {[NoReq EXCEPT !.method = "POST", !.route = "collection",
                   !.ctype = "application/json",
                   !.body = ObjectBody([Plain EXCEPT !.genre = g, !.year = y], {})] :
        g \in GenresListed, y \in YearsListed}
    \cup {[NoReq EXCEPT !.method = "DELETE", !.route = "single", !.id = i] : i \in Ids}
    \cup {[NoReq EXCEPT !.method = "GET", !.route = "collection",
                        !.params = [page |-> pg, limit |-> lm, genre |-> g, year |-> y]] :
            pg \in PageFilters, lm \in LimitFilters, g \in GenreFilters, y \in YearFilters}

YearsSearched == {JsUndefined, JsNumber(1999, TRUE)}

DescriptionsSearched == {JsUndefined, JsText(0, 3, 0)}

\* search terms: letters in either case, a digit, the LIKE wildcards, and
\* terms of MaxQuery and MaxQuery + 1 characters
Terms ==
    {<<"x">>, <<"x", "x">>, <<"x", "x", "x">>, <<"X">>, <<"y">>, <<"9">>,
     <<"1", "9">>, <<"_">>, <<"%">>, Repeat("x", MaxQuery), Repeat("x", MaxQuery + 1),
     <<>>}

\* creations with and without a year and a description, and searches
SearchRequests ==
    {[NoReq EXCEPT !.method = "POST", !.route = "collection",
                   !.ctype = "application/json",
                   !.body = ObjectBody([Plain EXCEPT !.year = y, !.description = d], {})] :
        y \in YearsSearched, d \in DescriptionsSearched}
    \cup {[NoReq EXCEPT !.method = "GET", !.route = "search",
                        !.q = JsString(chars), !.term = chars] : chars \in Terms}
    \cup {[NoReq EXCEPT !.method = "GET", !.route = "search"]}

Requests(scn) ==
    CASE scn = "gates" -> GateRequests
      [] scn = "year" -> YearRequests
      [] scn = "isbn" -> IsbnRequests
      [] scn = "genre" -> GenreRequests
      [] scn = "description" -> DescriptionRequests
      [] scn = "required" -> RequiredRequests
      [] scn = "race" -> RaceRequests
      [] scn = "list" -> ListRequests
      [] scn = "search" -> SearchRequests

\* how many invocations a scenario runs at once
Concurrency(scn) == IF scn = "race" THEN MaxCalls ELSE 1

\* whether the limiter and the store may fail in a scenario
Faulty(scn) == scn = "gates"

\* what a collaborator may raise
RaisedValues ==
    {PlainError("internal error"), PlainError("D1_ERROR: malformed JSON"),
     ThrownValue, ThrownNullish}

(***************************************************************************)
(* State                                                                   *)
(***************************************************************************)
VARIABLES
    scenario,   \* the traffic of this behaviour
    store,      \* the books table: id -> row
    nextId,     \* the AUTOINCREMENT sequence: the largest id assigned so far
    calls,      \* the invocations of fetch in progress: a bag, since two
                \* invocations may be alike in everything
    probe       \* the last call of a pure function: its input and its result

vars == <<scenario, store, nextId, calls, probe>>

EmptyTable == [i \in {} |-> NoBook]

\* no pure function has been called
NoProbe == [op |-> "none"]

Init ==
    /\ scenario \in Scenarios
    /\ store = EmptyTable
    /\ nextId = 0
    /\ calls = EmptyBag
    /\ probe = NoProbe

\* the invocations in progress
Calls == BagToSet(calls)

\* invocation c runs up to its next await, or to its end, and is then d
Become(c, d) == calls' = (calls (-) SetToBag({c})) (+) SetToBag({d})

\* results: [book] of SELECT * FROM books WHERE id = ?
SelectById(id) == IF id \in DOMAIN store THEN store[id] ELSE NoBook

\* the id was assigned and its row is gone
Gone(id) == id \in 1..nextId /\ id \notin DOMAIN store

\* the ids in S in ascending order (ORDER BY id ASC)
Ascending(S) ==
    CHOOSE s \in [1..Cardinality(S) -> S] : \A i, j \in 1..Cardinality(S) : i < j => s[i] < s[j]

\* results of a statement: the rows with these ids, as the table holds them
Rows(ids) == [k \in 1..Len(ids) |-> [id |-> ids[k], book |-> store[ids[k]]]]

\* column = ? : true when neither side is NULL and the two are the same value
SqlEquals(stored, bound) == stored.t # "null" /\ bound.t # "null" /\ stored = bound

\* the ids of the rows that satisfy the WHERE clause of a list statement:
\* 1=1, and one comparison for each AND piece, bound in the order written
Where(query, bindings) ==
    LET hasGenre == \E k \in 1..Len(query) : query[k] = "AND genre ="
        hasYear == \E k \in 1..Len(query) : query[k] = "AND year ="
    IN  {i \in DOMAIN store :
            /\ hasGenre => SqlEquals(store[i].genre, bindings[1])
            /\ hasYear => SqlEquals(store[i].year, bindings[IF hasGenre THEN 2 ELSE 1])}

\* results[0].count of the count statement
SelectCount(query, bindings) == Cardinality(Where(query, bindings))

\* results of the data statement: ORDER BY id ASC LIMIT ? OFFSET ?, the last
\* two values bound
SelectPage(query, bindings) ==
    LET ids == Ascending(Where(query, bindings))
        limit == bindings[Len(bindings) - 1].num
        offset == bindings[Len(bindings)].num
    IN  Rows(SubSeq(ids, offset + 1, Min(offset + limit, Len(ids))))

\* results of the search statement: the rows one of whose six columns is
\* LIKE the term between two % signs, ORDER BY id ASC
SelectLike(term) ==
    LET searchTerm == <<"%">> \o term \o <<"%">>
    IN  Rows(Ascending({i \in DOMAIN store :
            \E col \in ALLOWED_UPDATE_FIELDS : SqlLike(store[i][col], searchTerm)}))

\* creations that may still insert
PendingInserts ==
    BagCardinality([c \in {d \in Calls : /\ d.pc \in {"limiter", "insert"}
                                        /\ d.req.method = "POST"
                                        /\ d.req.route = "collection"} |-> calls[c]])

(***************************************************************************)
(* Actions.  Each is one run of the handler from one await to the next.    *)
(***************************************************************************)
\* No invocation has just finished.  A finished invocation is retired
\* (Recycle) before anything else happens: retiring it touches nothing but
\* its own record, so every order of the other steps remains.
Quiet == \A d \in Calls : d.pc # "done"

\* fetch(request, env, ctx) is called
Receive(rq) ==
    /\ Quiet
    /\ BagCardinality(calls) < Concurrency(scenario)
    /\ rq \in Requests(scenario)
    /\ (rq.method = "POST" /\ rq.route = "collection") => nextId + PendingInserts < MaxId
    /\ calls' = calls (+) SetToBag({Enter([NewCall EXCEPT
                    !.req = rq, !.late = (rq.route = "single" /\ Gone(rq.id))])})
    /\ UNCHANGED <<scenario, store, nextId, probe>>

\* env.MY_RATE_LIMITER.limit returns { success }
LimiterReturn(c, success) ==
    /\ Quiet
    /\ c.pc = "limiter"
    /\ Become(c, AfterLimit([c EXCEPT !.trouble = IF success THEN @ ELSE "denied"],
                 success))
    /\ UNCHANGED <<scenario, store, nextId, probe>>

\* env.MY_RATE_LIMITER.limit raises
LimiterRaise(c, err) ==
    /\ Quiet
    /\ c.pc = "limiter"
    /\ Become(c, AfterLimitRaised(
                 [c EXCEPT !.trouble =
                 IF err.cls = "nullish" THEN "limiter-nullish" ELSE "limiter-error"],
                 err))
    /\ UNCHANGED <<scenario, store, nextId, probe>>

\* the search statement returns
SearchReturn(c) ==
    /\ Quiet
    /\ c.pc = "search"
    /\ Become(c, Return(c, SearchResponse(SelectLike(c.req.term))))
    /\ UNCHANGED <<scenario, store, nextId, probe>>

\* the count statement of the list returns; the data statement is issued
CountReturn(c) ==
    /\ Quiet
    /\ c.pc = "count"
    /\ LET st == ListStatements(c.req.params, 0)
       IN  Become(c, Await([c EXCEPT !.count = SelectCount(st.countQuery, st.countBindings)],
                           "list", <<"LIST">>, TRUE))
    /\ UNCHANGED <<scenario, store, nextId, probe>>

\* the data statement of the list returns
ListReturn(c) ==
    /\ Quiet
    /\ c.pc = "list"
    /\ LET st == ListStatements(c.req.params, c.count)
       IN  Become(c, Return(c, ListResponse(
                        SelectPage(st.query, st.bindings),
                        [total |-> c.count, page |-> st.page, limit |-> st.limit,
                         pages |-> st.pages])))
    /\ UNCHANGED <<scenario, store, nextId, probe>>

\* the three statements of the stats route return
StatsReturn(c) ==
    /\ Quiet
    /\ c.pc = "stats"
    /\ Become(c, Return(c, DataResponse("stats", LongCache)))
    /\ UNCHANGED <<scenario, store, nextId, probe>>

\* SELECT 1 of the health route returns
HealthReturn(c) ==
    /\ Quiet
    /\ c.pc = "health"
    /\ Become(c, Return(c, DataResponse("health", NoCache)))
    /\ UNCHANGED <<scenario, store, nextId, probe>>

\* NewId of a table without AUTOINCREMENT: one more than the largest id in it
NewIdAfterLargest ==
    IF DOMAIN store = {} THEN 1
    ELSE 1 + CHOOSE m \in DOMAIN store : \A i \in DOMAIN store : i <= m

\* NewId taken from the number of rows
NewIdByCount == Cardinality(DOMAIN store) + 1

\* the id the table gives the next inserted row
NewId == nextId + 1

\* the INSERT runs: the table assigns the next id; the row is then read back
InsertReturn(c) ==
    /\ Quiet
    /\ c.pc = "insert"
    /\ NewId <= MaxId
    /\ store' = [i \in DOMAIN store \cup {NewId} |->
                    IF i = NewId THEN Stored(InsertValues(c.req.body.fields))
                    ELSE store[i]]
    /\ nextId' = NewId
    /\ Become(c, Await([c EXCEPT !.lastId = NewId], "inserted", <<"SELECT">>, TRUE))
    /\ UNCHANGED <<scenario, probe>>

\* the read-back of the inserted row returns
InsertedReturn(c) ==
    /\ Quiet
    /\ c.pc = "inserted"
    /\ Become(c, Return(Log(c, "Book created:"),
                 BookResponse(201, c.lastId, SelectById(c.lastId), NoCache)))
    /\ UNCHANGED <<scenario, store, nextId, probe>>

\* the lookup of the single book route returns
LookupReturn(c) ==
    /\ Quiet
    /\ c.pc = "lookup"
    /\ Become(c, AfterLookup(c, SelectById(PathId(c.req))))
    /\ UNCHANGED <<scenario, store, nextId, probe>>

\* the table after UPDATE books SET ... WHERE id = ? with the payload `body`
AfterUpdate(id, body) ==
    IF id \in DOMAIN store
    THEN [store EXCEPT ![id] = UpdatedRow(store[id], body)]
    ELSE store

\* the UPDATE runs; the row is then read back
UpdateReturn(c) ==
    /\ Quiet
    /\ c.pc = "update"
    /\ store' = AfterUpdate(PathId(c.req), c.req.body)
    /\ Become(c, Await(c, "updated", <<"SELECT">>, TRUE))
    /\ UNCHANGED <<scenario, nextId, probe>>

\* the read-back of the updated row returns
UpdatedReturn(c) ==
    /\ Quiet
    /\ c.pc = "updated"
    /\ Become(c, Return(Log(c, "Book updated:"),
                 BookResponse(200, PathId(c.req),
                 SelectById(PathId(c.req)), NoCache)))
    /\ UNCHANGED <<scenario, store, nextId, probe>>

\* the table after DELETE FROM books WHERE id = ?
AfterDelete(id) == [i \in DOMAIN store \ {id} |-> store[i]]

\* the DELETE runs
DeleteReturn(c) ==
    /\ Quiet
    /\ c.pc = "delete"
    /\ store' = AfterDelete(PathId(c.req))
    /\ Become(c, Return(Log(c, "Book deleted:"),
                 EmptyResponse(204)))
    /\ UNCHANGED <<scenario, nextId, probe>>

\* the message of the Error thrown when run() reports no success
FailedMessage(pc) ==
    CASE pc = "insert" -> "Failed to insert book"
      [] pc = "update" -> "Failed to update book"
      [] pc = "delete" -> "Failed to delete book"

\* run() returns { success: false }
RunFails(c) ==
    /\ Quiet
    /\ Faulty(scenario)
    /\ c.pc \in {"insert", "update", "delete"}
    /\ Become(c, Catch([c EXCEPT !.trouble = "run-failed"],
                 PlainError(FailedMessage(c.pc))))
    /\ UNCHANGED <<scenario, store, nextId, probe>>

\* positions at which the handler awaits the store
StorePcs ==
    {"search", "count", "list", "stats", "health", "insert", "inserted",
     "lookup", "update", "updated", "delete"}

\* the awaited statement raises
StoreRaise(c, err) ==
    /\ Quiet
    /\ Faulty(scenario)
    /\ c.pc \in StorePcs
    /\ Become(c, Catch([c EXCEPT !.trouble = "store-raised"], err))
    /\ UNCHANGED <<scenario, store, nextId, probe>>

\* the timer of executeQuery fires before the statement returns
Timeout(c) ==
    /\ Quiet
    /\ Faulty(scenario)
    /\ c.pc \in StorePcs
    /\ c.timer
    /\ Become(c, Catch([c EXCEPT !.trouble = "timeout"],
                 PlainError("Database query timeout")))
    /\ UNCHANGED <<scenario, store, nextId, probe>>

\* the invocation is over; another request may arrive
Recycle(c) ==
    /\ c.pc = "done"
    /\ calls' = calls (-) SetToBag({c})
    /\ UNCHANGED <<scenario, store, nextId, probe>>

Next ==
    \/ \E rq \in Requests(scenario) : Receive(rq)
    \/ \E c \in Calls, success \in BOOLEAN : LimiterReturn(c, success)
    \/ \E c \in Calls, err \in RaisedValues : LimiterRaise(c, err)
    \/ \E c \in Calls : SearchReturn(c)
    \/ \E c \in Calls : CountReturn(c)
    \/ \E c \in Calls : ListReturn(c)
    \/ \E c \in Calls : StatsReturn(c)
    \/ \E c \in Calls : HealthReturn(c)
    \/ \E c \in Calls : InsertReturn(c)
    \/ \E c \in Calls : InsertedReturn(c)
    \/ \E c \in Calls : LookupReturn(c)
    \/ \E c \in Calls : UpdateReturn(c)
    \/ \E c \in Calls : UpdatedReturn(c)
    \/ \E c \in Calls : DeleteReturn(c)
    \/ \E c \in Calls : RunFails(c)
    \/ \E c \in Calls, err \in RaisedValues : StoreRaise(c, err)
    \/ \E c \in Calls : Timeout(c)
    \/ \E c \in Calls : Recycle(c)

Spec == Init /\ [][Next]_vars

(***************************************************************************)
(* The pure functions on their own: validateBook, the list statements and  *)
(* the UPDATE statement, each called with inputs drawn from the sets       *)
(* below.                                                                  *)
(***************************************************************************)
\* keys in an update payload
MaxKeys == 3

YearProbes ==
    {JsNumber(n, w) : n \in {0, 1, currentYear, MaxYear - 1, MaxYear, MaxYear + 1},
                      w \in BOOLEAN}
    \cup {JsNumber(0 - 1, TRUE), JsNumber(0 - 2, TRUE)}
    \cup {JsNumeral(n, j) : n \in {0, MaxYear, MaxYear + 1}, j \in {0, 3}}
    \cup {JsNegative(1), JsText(0, 3, 0), JsTrue, JsNull, JsEmptyString, JsUndefined}

PageProbes ==
    {JsNull, JsEmptyString, JsText(0, 3, 0), JsNegative(3)}
    \cup {JsNumeral(n, 0) : n \in {0, 1, 2, 7, 1000}} \cup {JsNumeral(5, 2)}

LimitProbes ==
    {JsNull, JsEmptyString, JsText(0, 3, 0), JsNegative(3)}
    \cup {JsNumeral(n, 0) : n \in {0, 1, 10, 99, 100, 101, 1000}} \cup {JsNumeral(5, 2)}

GenreProbes == {JsNull, JsEmptyString, JsText(0, MaxGenre, 0), JsText(0, MaxGenre + 1, 0)}

YearFilterProbes == {JsNull, JsNumeral(1999, 0), JsNumeral(0, 0)}

CountProbes == {0, 1, 10, 42, 101}

IsbnProbes ==
    {JsZeros(d, 0) : d \in {9, 10, 11, 12, 13, 14, 17, 18, 20}}
    \cup {JsZeros(10, h) : h \in {1, 2, 3, 7, 8}}
    \cup {[JsZeros(10, 0) EXCEPT !.lead = 1], [JsZeros(13, 0) EXCEPT !.trail = 1],
          JsNumeral(123456789, 1), JsText(0, 3, 0), JsText(3, 0, 0), JsText(0, 13, 0),
          JsNumber(0, TRUE), JsNumber(451524935, TRUE), JsTrue,
          JsNull, JsEmptyString, JsUndefined}

ProbeKeys == {"title", "year", "genre", "id"}

ProbeValues == {JsText(1, 2, 1), JsEmptyString, JsNumber(7, TRUE)}

\* the orders in which a payload may name up to MaxKeys of the keys
KeyOrders ==
    {ks \in UNION {[1..n -> ProbeKeys] : n \in 0..MaxKeys} :
        \A i, j \in 1..Len(ks) : i # j => ks[i] # ks[j]}

PureInit ==
    /\ scenario = "none"
    /\ store = EmptyTable
    /\ nextId = 0
    /\ calls = EmptyBag
    /\ probe = NoProbe

\* validateBook(book, isUpdate) of a candidate with the year y: on creation
\* the body, on update the stored row overlaid with the payload
CallValidateBook(y, isUpdate) ==
    /\ probe = NoProbe
    /\ probe' =
            [op |-> "validateBook", year |-> y, isUpdate |-> isUpdate,
             out |-> validateBook(
                        IF isUpdate
                        THEN Merged(Stored(InsertValues(Plain)),
                                    ObjectBody([NoFields EXCEPT !.year = y], {}))
                        ELSE [Plain EXCEPT !.year = y],
                        isUpdate)]
    /\ UNCHANGED <<scenario, store, nextId, calls>>

\* validateBook(book, isUpdate) of a candidate with the isbn v
CallValidateIsbn(v, isUpdate) ==
    /\ probe = NoProbe
    /\ probe' =
            [op |-> "validateIsbn", isbn |-> v, isUpdate |-> isUpdate,
             out |-> validateBook(
                        IF isUpdate
                        THEN Merged(Stored(InsertValues(Plain)),
                                    ObjectBody([NoFields EXCEPT !.isbn = v], {}))
                        ELSE [Plain EXCEPT !.isbn = v],
                        isUpdate)]
    /\ UNCHANGED <<scenario, store, nextId, calls>>

\* GET /api/books with the query parameters params, the table counting count
CallListStatements(params, count) ==
    /\ probe = NoProbe
    /\ probe' = [op |-> "list", params |-> params, count |-> count,
                 out |-> ListStatements(params, count)]
    /\ UNCHANGED <<scenario, store, nextId, calls>>

\* PUT /api/books/id with a payload naming keys in this order
CallUpdateStatement(keys, updates, id) ==
    /\ probe = NoProbe
    /\ probe' = [op |-> "update", keys |-> keys, updates |-> updates, id |-> id,
                 out |-> UpdateStatement(keys, updates, id)]
    /\ UNCHANGED <<scenario, store, nextId, calls>>

PureNext ==
    \/ /\ probe = NoProbe
       /\ \E y \in YearProbes, isUpdate \in BOOLEAN : CallValidateBook(y, isUpdate)
    \/ /\ probe = NoProbe
       /\ \E v \in IsbnProbes, isUpdate \in BOOLEAN : CallValidateIsbn(v, isUpdate)
    \/ /\ probe = NoProbe
       /\ \E pg \in PageProbes, lm \in LimitProbes, g \in GenreProbes,
             yr \in YearFilterProbes, count \in CountProbes :
               CallListStatements([page |-> pg, limit |-> lm, genre |-> g, year |-> yr],
                                  count)
    \/ /\ probe = NoProbe
       /\ \E keys \in KeyOrders, updates \in [ProbeKeys -> ProbeValues], id \in Ids :
               CallUpdateStatement(keys, updates, id)

PureSpec == PureInit /\ [][PureNext]_vars

(***************************************************************************)
(* Properties                                                              *)
(***************************************************************************)
Done(c) == c.pc = "done"

\* the content-length header declares more than 1 MiB
DeclaresOverOneMiB(rq) == rq.clen.t = "string" /\ rq.clen.numeric /\ rq.clen.num > 1048576

\* C1: every request is answered with a response; no failure raised while
\* handling it, whatever the raised value, leaves fetch unhandled.
C1_AlwaysAnswered ==
    \A c \in Calls : Done(c) => ~c.escaped /\ c.resp.status # 0

\* C2: on every exit path of fetch exactly one 'Request completed' event is
\* logged.
C2_OneCompletionEvent ==
    \A c \in Calls : Done(c) => c.completed = 1

\* C3 as stated: every request that declares more than 1 MiB is answered 413
\* without the limiter being called, the body parsed or validated, or a
\* statement issued.
C3_OversizeAlways413 ==
    \A c \in Calls :
        Done(c) /\ DeclaresOverOneMiB(c.req) =>
            /\ c.resp.status = 413
            /\ c.limiterCalls = 0
            /\ ~c.parsed /\ ~c.validated
            /\ c.stmts = <<>>

\* C3 amended: every request other than OPTIONS that declares more than
\* 1 MiB is answered 413 without the limiter being called, the body parsed
\* or validated, or a statement issued.
C3_OversizeNonPreflight413 ==
    \A c \in Calls :
        Done(c) /\ DeclaresOverOneMiB(c.req) /\ c.req.method # "OPTIONS" =>
            /\ c.resp.status = 413
            /\ c.limiterCalls = 0
            /\ ~c.parsed /\ ~c.validated
            /\ c.stmts = <<>>

C3_Witness ==
    \E c \in Calls :
        /\ Done(c) /\ DeclaresOverOneMiB(c.req)
        /\ c.req.method = "POST" /\ c.req.limiter
        /\ c.req.body.kind = "object"
        /\ c.resp.status = 413

\* C4: every OPTIONS request is answered with an empty 204, whatever its
\* path, headers and declared size, without the limiter being called, the
\* content type checked or a statement issued.
C4_PreflightEmpty204 ==
    \A c \in Calls :
        Done(c) /\ c.req.method = "OPTIONS" =>
            /\ c.resp.status = 204 /\ c.resp.kind = "empty"
            /\ c.limiterCalls = 0
            /\ ~c.ctChecked
            /\ c.stmts = <<>>

C4_Witness ==
    \E c \in Calls :
        /\ Done(c) /\ c.req.method = "OPTIONS"
        /\ DeclaresOverOneMiB(c.req) /\ c.req.limiter
        /\ c.req.route = "single" /\ c.req.ctype = NoHeader
        /\ c.resp.status = 204

\* C5: every store operation a request awaits, read or mutation, is raced
\* against the timeout, so that one that never completes is answered 504.
C5_EveryStoreOperationTimed ==
    \A c \in Calls : c.pc \in StorePcs => c.timer

\* text of the ISBN format: 10 digits, 13 digits, or 13 to 17 digits and hyphens
IsIsbnText(v) ==
    /\ v.t = "string" /\ v.lead = 0 /\ v.trail = 0 /\ v.oth = 0
    /\ \/ v.hyps = 0 /\ v.digs = 10
       \/ v.hyps = 0 /\ v.digs = 13
       \/ v.digs + v.hyps >= 13 /\ v.digs + v.hyps <= 17

\* a row that satisfies the field constraints of the data model
ValidRow(row) ==
    /\ row.title.t = "string" /\ Length(row.title) >= 1 /\ Length(row.title) <= 500
    /\ row.author.t = "string" /\ Length(row.author) >= 1 /\ Length(row.author) <= 200
    /\ \/ row.year.t = "null"
       \/ /\ row.year.t = "number" /\ row.year.whole
          /\ row.year.num >= 0 /\ row.year.num <= currentYear + 10
    /\ row.isbn.t = "null" \/ IsIsbnText(row.isbn)
    /\ row.genre.t = "null" \/ (row.genre.t = "string" /\ Length(row.genre) <= 100)
    /\ \/ row.description.t = "null"
       \/ row.description.t = "string" /\ Length(row.description) <= 5000

\* C6: after any sequence and interleaving of creations and partial
\* updates, every stored record satisfies all field constraints.
C6_StoredRecordsValid ==
    \A i \in DOMAIN store : ValidRow(store[i])

OptionalFields == {"year", "isbn", "genre", "description"}

\* C7: no stored record has an optional field that is the empty string or
\* is empty after trimming; such a value is stored as null, on insert and
\* on update.
C7_NoBlankOptional ==
    \A i \in DOMAIN store : \A f \in OptionalFields :
        ~(store[i][f].t = "string" /\ Length(Trim(store[i][f])) = 0)

\* the id of the request had no row at any time while it was handled: it was
\* deleted before the request arrived, or has not been assigned
NeverResolved(c) == c.late \/ c.req.id \notin 1..nextId

\* the request passes the size gate and the limiter, and no statement of it
\* fails or times out
Unhindered(c) ==
    /\ ~DeclaresOverOneMiB(c.req)
    /\ c.trouble \in {"none", "limiter-error"}

OnSingleBook(c, methods) ==
    Done(c) /\ c.req.route = "single" /\ c.req.method \in methods

\* C8 as stated: GET, PUT and DELETE on a numeric-id path whose id has no
\* record are all answered 404, after exactly one lookup and without an
\* UPDATE or DELETE statement.
C8_AbsentIdAlways404 ==
    \A c \in Calls :
        OnSingleBook(c, {"GET", "PUT", "DELETE"}) /\ NeverResolved(c) =>
            c.resp.status = 404 /\ c.stmts = <<"SELECT">>

\* C8 amended: GET, PUT and DELETE on /api/books/{id}, id a positive integer
\* that has no record, are all answered 404 after exactly one lookup and
\* without an UPDATE or DELETE statement, provided the request passes the
\* size, rate-limit and content-type gates (a PUT names application/json)
\* and its lookup completes.
C8_AbsentId404PastGates ==
    \A c \in Calls :
        /\ OnSingleBook(c, {"GET", "PUT", "DELETE"}) /\ NeverResolved(c)
        /\ c.req.id >= 1
        /\ Unhindered(c)
        /\ c.req.method = "PUT" => c.req.ctype = "application/json"
        => c.resp.status = 404 /\ c.stmts = <<"SELECT">>

C8_Witness ==
    \E c \in Calls :
        /\ OnSingleBook(c, {"PUT"}) /\ c.late
        /\ c.req.body.kind = "object"
        /\ c.resp.status = 404 /\ c.stmts = <<"SELECT">>

\* what C9 says of a state: a DELETE that found its record and was not
\* hindered is answered 204; the id of a DELETE answered 204 has no record;
\* a GET that arrived after its id was deleted is never answered with a
\* record, and is answered 404 when it is not hindered
C9_State ==
    \A c \in Calls :
        /\ OnSingleBook(c, {"DELETE"}) /\ Unhindered(c) /\ c.stmts = <<"SELECT", "DELETE">>
            => c.resp.status = 204
        /\ OnSingleBook(c, {"DELETE"}) /\ c.resp.status = 204
            => c.req.id \notin DOMAIN store
        /\ OnSingleBook(c, {"GET"}) /\ c.late
            => /\ c.resp.status # 200 /\ c.resp.kind # "book"
               /\ Unhindered(c) => c.resp.status = 404

\* what C9 says of a step: the DELETE answered 204 removes the row of its id
\* and no other; an id whose row is gone never has a row again
C9_Step ==
    /\ \A c \in Calls, d \in BagToSet(calls') :
        Become(c, d) /\ c.pc = "delete" /\ d.resp.status = 204 =>
            /\ DOMAIN store' = DOMAIN store \ {c.req.id}
            /\ \A i \in DOMAIN store' : store'[i] = store[i]
    /\ \A i \in Ids : Gone(i) => Gone(i)'

\* C9: a DELETE on an existing id is answered 204 and removes exactly that
\* record; every later GET on that id is answered 404 whatever requests,
\* creations included, happen in between: an id is never reused.
C9_DeletedStaysDeleted == []C9_State /\ [][C9_Step]_vars

C9_Witness ==
    \E c \in Calls :
        /\ OnSingleBook(c, {"GET"}) /\ c.late /\ c.req.id = 1
        /\ c.resp.status = 404
        /\ 2 \in DOMAIN store

\* the id a creation was given by the table
CreatedId(c) ==
    IF c.pc = "inserted" THEN c.lastId
    ELSE IF Done(c) /\ c.resp.status = 201 /\ c.resp.kind = "book"
         THEN c.resp.id
         ELSE 0

\* what C10 says of a state: two creations never hold the same id, and every
\* row has an id the table assigned
C10_State ==
    /\ \A c \in Calls :
        CreatedId(c) # 0 =>
            /\ CopiesIn(c, calls) = 1
            /\ \A d \in Calls \ {c} : CreatedId(d) # CreatedId(c)
    /\ DOMAIN store \subseteq 1..nextId

\* what C10 says of a step: an INSERT that runs adds one row, the creation's
\* own, under an id never assigned before, and leaves every other row as it
\* was; no other step adds a row
C10_Step ==
    /\ \A c \in Calls, d \in BagToSet(calls') :
        Become(c, d) /\ c.pc = "insert" /\ d.pc = "inserted" =>
            /\ d.lastId > nextId
            /\ DOMAIN store' = DOMAIN store \cup {d.lastId}
            /\ store'[d.lastId].title = Trim(c.req.body.fields.title)
            /\ \A i \in DOMAIN store : store'[i] = store[i]
    /\ DOMAIN store' \subseteq DOMAIN store
        \/ \E c \in Calls, d \in BagToSet(calls') :
                Become(c, d) /\ c.pc = "insert" /\ d.pc = "inserted"

\* C10: for any interleaving of concurrent creations with valid bodies, each
\* adds its own record under a distinct store-assigned id, and no stored
\* record is overwritten or lost.
C10_CreationsKeepIdsApart == []C10_State /\ [][C10_Step]_vars

C10_Witness ==
    \E c, d \in Calls :
        /\ c.pc = "inserted" /\ d.pc = "inserted"
        /\ c.lastId # d.lastId
        /\ DOMAIN store = {c.lastId, d.lastId}

\* the invocation is past the OPTIONS short-circuit, the size check and the
\* call of the limiter
PastLimiter(c) == ~IsPreflight(c.req) /\ ~TooLarge(c.req) /\ c.pc # "limiter"

\* C11: the outcome of the rate-limit gate depends on the limiter alone:
\* without a limiter, or when the limiter allows, or when its call raises,
\* the request goes on to the content-type check and routing; when the
\* limiter denies, the request is answered 429, no body is parsed and no
\* store statement is issued.
C11_GateFollowsLimiter ==
    \A c \in Calls :
        PastLimiter(c) =>
            IF c.trouble = "denied"
            THEN c.resp.status = 429 /\ ~c.parsed /\ c.stmts = <<>>
            ELSE c.ctChecked

\* the status the error taxonomy gives the failure that ended invocation c
StatusOfKind(c) ==
    CASE c.raised.cls = "ValidationError" -> 400
      [] c.raised.cls = "NotFoundError" -> 404
      [] c.raised.cls = "RateLimitError" -> 429
      [] c.trouble = "timeout" -> 504
      [] c.raised.cls = "SyntaxError" -> 400
      [] OTHER -> 500

\* C12: the status of an error response is determined by the kind of failure
\* alone: ValidationError 400, NotFoundError 404, RateLimitError 429, a store
\* timeout 504, a body parse failure 400, and every other failure 500 with
\* the message 'An unexpected error occurred'.
C12_StatusByKindAlone ==
    \A c \in Calls :
        Done(c) /\ c.raised # NoError =>
            /\ c.resp.status = StatusOfKind(c)
            /\ c.resp.status = 500 => c.resp.msg = "An unexpected error occurred"

\* the fixed messages of error responses
GenericMessages ==
    {"An unexpected error occurred", "Request timeout", "Invalid JSON in request body",
     "Request body too large (max 1MB)", "Method not allowed", "Not Found"}

\* C13: the message of every error response is the message of the raised
\* ValidationError, NotFoundError or RateLimitError, or one of the fixed
\* strings; the message of any other failure never appears in a response.
C13_OnlyClassifiedMessages ==
    \A c \in Calls :
        Done(c) /\ c.resp.kind = "error" =>
            IF c.raised.cls \in {"ValidationError", "NotFoundError", "RateLimitError"}
            THEN c.resp.msg = c.raised.msg
            ELSE c.resp.msg \in GenericMessages /\ c.resp.msg # c.raised.msg

C13_Witness ==
    \E c \in Calls :
        /\ Done(c) /\ c.trouble = "store-raised"
        /\ c.raised = PlainError("internal error")
        /\ c.resp = ErrorResponse(500, "An unexpected error occurred")
        /\ c.stmts = <<"SELECT", "UPDATE">>

\* a finished request, not OPTIONS, within the size limit and not denied by
\* the limiter, whose path matches none of the routes
Unmatched(c) ==
    /\ Done(c) /\ ~IsPreflight(c.req) /\ ~TooLarge(c.req)
    /\ c.trouble # "denied" /\ c.req.route = "other"

\* C14 as stated: every non-OPTIONS request within the size limit and not
\* denied by the limiter whose path matches no route is answered 404, for
\* every method and whatever its headers, and issues no store statement.
C14_UnmatchedAlways404 ==
    \A c \in Calls : Unmatched(c) => c.resp.status = 404 /\ c.stmts = <<>>

\* C14 amended: every non-OPTIONS request within the size limit that passes
\* the rate-limit gate and, when its method is POST or PUT, declares the
\* application/json content type, and whose path matches no route, is
\* answered 404 for every method, and issues no store statement.
C14_Unmatched404PastGates ==
    \A c \in Calls :
        /\ Unmatched(c) /\ Unhindered(c)
        /\ c.req.method \in {"POST", "PUT"} => c.req.ctype = "application/json"
        => c.resp = ErrorResponse(404, "Not Found") /\ c.stmts = <<>>

C14_Witness ==
    \E c \in Calls :
        /\ Unmatched(c) /\ c.req.method = "PUT" /\ c.req.ctype = "application/json"
        /\ c.trouble = "limiter-error" /\ c.ctChecked
        /\ c.resp = ErrorResponse(404, "Not Found")

\* the methods the HTTP surface lists for a route
Supported(route) ==
    CASE route = "collection" -> {"GET", "POST"}
      [] route = "single" -> {"GET", "PUT", "DELETE"}
      [] OTHER -> {"GET"}

\* C15: on each matched route, a request that passed the size, rate-limit
\* and content-type gates and whose method the route does not support
\* (search, stats, health: GET; collection: GET, POST; single book: GET,
\* PUT, DELETE) is answered 405.
C15_UnsupportedMethod405 ==
    \A c \in Calls :
        /\ Done(c) /\ ~IsPreflight(c.req) /\ c.ctChecked
        /\ validateContentType(c.req) = NoError
        /\ c.req.route \in {"search", "collection", "single", "stats", "health"}
        /\ c.req.method \notin Supported(c.req.route)
        => c.resp.status = 405

\* the pieces of statement text that are written in the source
FixedPieces ==
    {"SELECT", "*", "COUNT(*) as count", "FROM books WHERE 1=1", "AND genre =",
     "AND year =", "ORDER BY id ASC LIMIT", "OFFSET", "UPDATE books SET", "WHERE id =",
     "=", ",", "?"}

\* the text is made of written pieces and allow-listed column names
OnlyPiecesAndColumns(text) ==
    \A i \in 1..Len(text) :
        text[i] \in FixedPieces \cup {"title", "author", "year", "isbn", "genre", "description"}

\* the number of '?' in the text
Placeholders(text) == Cardinality({i \in 1..Len(text) : text[i] = "?"})

\* the allow-listed column names among the keys, in the order of the keys
Columns(keys) ==
    SelectSeq(keys,
              LAMBDA k : k \in {"title", "author", "year", "isbn", "genre", "description"})

\* C16: in every statement the handler builds, user-controlled values travel
\* only as bound parameters: the text is a function of the set and order of
\* the allow-listed column names alone, the number of '?' equals the number
\* of bound values, and in the partial update the row id is the last bound
\* value, after one value per SET column in the order of the payload's keys.
C16_ValuesOnlyBound ==
    /\ probe.op = "update" /\ probe.out.error = NoError =>
        LET out == probe.out
            cols == Columns(probe.keys)
        IN  /\ OnlyPiecesAndColumns(out.text)
            /\ Placeholders(out.text) = Len(out.values)
            /\ Len(out.values) = Len(cols) + 1
            /\ out.values[Len(out.values)] = JsNumber(probe.id, TRUE)
            /\ \A i \in 1..Len(cols) :
                    /\ out.text[4 * i - 2] = cols[i]
                    /\ out.values[i] = UpdateValue(probe.updates[cols[i]])
            /\ \A v \in ProbeValues :
                    UpdateStatement(probe.keys, [k \in ProbeKeys |-> v], probe.id).text
                        = out.text
    /\ probe.op = "list" /\ probe.out.error = NoError =>
        LET out == probe.out
            other == [probe.params EXCEPT
                        !.genre = IF Truthy(@) THEN JsText(0, 1, 0) ELSE @,
                        !.year = IF safeParseInt(@, NoYear) # NoYear
                                 THEN JsNumeral(7, 0) ELSE @,
                        !.page = JsNumeral(3, 0), !.limit = JsNumeral(4, 0)]
        IN  /\ OnlyPiecesAndColumns(out.query) /\ OnlyPiecesAndColumns(out.countQuery)
            /\ Placeholders(out.query) = Len(out.bindings)
            /\ Placeholders(out.countQuery) = Len(out.countBindings)
            /\ ListStatements(other, probe.count).query = out.query

C16_Witness ==
    /\ probe.op = "update" /\ probe.keys = <<"genre", "id", "title">>
    /\ probe.updates["genre"] = JsEmptyString /\ probe.updates["title"] = JsText(1, 2, 1)
    /\ probe.id = 2
    /\ probe.out.text = <<"UPDATE books SET", "genre", "=", "?", ",", "title", "=", "?",
                          "WHERE id =", "?">>
    /\ probe.out.values = <<JsNull, JsText(0, 2, 0), JsNumber(2, TRUE)>>

\* the number y lies in [0, currentYear + 10]
YearInRange(y) ==
    /\ y.t = "number" /\ y.num >= 0
    /\ IF y.whole THEN y.num <= currentYear + 10 ELSE y.num < currentYear + 10

\* C19: validateBook, in create and in update mode, fails with
\* ValidationError for every provided year outside [0, currentYear+10] and
\* passes the year check for every integer inside it, the boundary values 0
\* and currentYear+10 included.
C19_YearRangeEnforced ==
    probe.op = "validateBook" /\ probe.year.t = "number" =>
        /\ YearInRange(probe.year) /\ probe.year.whole => probe.out = NoError
        /\ ~YearInRange(probe.year) => probe.out.cls = "ValidationError"

\* C20: for every value of the page and limit parameters the list uses a
\* page of at least 1 (default 1) and a limit in 1..100 (default 10), binds
\* offset = (page-1)*limit, never negative, and reports pages =
\* ceil(total/limit) (5 for total 42 and limit 10).
C20_PageAndLimitBounded ==
    probe.op = "list" /\ probe.out.error = NoError =>
        LET out == probe.out
            pg == ParseInt(probe.params.page)
            lm == ParseInt(probe.params.limit)
            n == Len(out.bindings)
        IN  /\ out.page >= 1
            /\ out.page = (IF ~pg.nan /\ pg.val >= 1 THEN pg.val ELSE 1)
            /\ out.limit \in 1..100
            /\ out.limit = (IF ~lm.nan /\ lm.val >= 1
                            THEN (IF lm.val > 100 THEN 100 ELSE lm.val)
                            ELSE 10)
            /\ out.offset = (out.page - 1) * out.limit /\ out.offset >= 0
            /\ out.bindings[n - 1] = JsNumber(out.limit, TRUE)
            /\ out.bindings[n] = JsNumber(out.offset, TRUE)
            /\ out.pages * out.limit >= probe.count
            /\ \/ (out.pages - 1) * out.limit < probe.count
               \/ (probe.count = 0 /\ out.pages = 0)
            /\ probe.count = 42 /\ out.limit = 10 => out.pages = 5

C20_Witness ==
    /\ probe.op = "list"
    /\ probe.params.page = JsNumeral(2, 0) /\ probe.params.limit = JsNegative(3)
    /\ probe.count = 42
    /\ probe.out.page = 2 /\ probe.out.limit = 10 /\ probe.out.offset = 10
    /\ probe.out.pages = 5

\* a finished PUT with an object payload that passed the gates and whose
\* lookup found the record
PutOnExisting(c) ==
    /\ OnSingleBook(c, {"PUT"}) /\ c.req.body.kind = "object"
    /\ Unhindered(c) /\ c.req.ctype = "application/json"
    /\ c.req.id >= 1 /\ c.raised.cls # "NotFoundError"

\* the allow-listed keys of an object payload
AllowListedKeys(body) ==
    {f \in {"title", "author", "year", "isbn", "genre", "description"} :
        body.fields[f].t # "undefined"}

\* C17: a PUT on an existing id whose payload has no allow-listed key (only
\* unknown keys, or no keys) is rejected with 400 and no UPDATE is issued;
\* unknown keys that accompany an allow-listed key are dropped and do not
\* cause rejection.
C17_NoValidFieldsRejected ==
    \A c \in Calls :
        PutOnExisting(c) =>
            IF AllowListedKeys(c.req.body) = {}
            THEN /\ c.resp = ErrorResponse(400, "No valid fields to update")
                 /\ c.stmts = <<"SELECT">>
            ELSE /\ c.validated
                 /\ c.resp.msg # "No valid fields to update"
                 /\ c.raised = NoError =>
                        c.resp.status = 200 /\ c.stmts = <<"SELECT", "UPDATE", "SELECT">>

C17_Witness ==
    \E c \in Calls :
        /\ PutOnExisting(c) /\ c.req.body.extra = {"id"}
        /\ AllowListedKeys(c.req.body) = {"title"}
        /\ c.resp.status = 200 /\ c.resp.book.title = JsText(0, 2, 0)
        /\ c.stmts = <<"SELECT", "UPDATE", "SELECT">>

\* the value of a required field is missing or empty
MissingOrEmpty(v) == v.t \in {"undefined", "null"} \/ (v.t = "string" /\ Length(v) = 0)

Listed(c) ==
    /\ Done(c) /\ c.req.method = "GET" /\ c.req.route = "collection"
    /\ c.resp.status = 200

\* the query parameter was sent with a value
Supplied(v) == v.t = "string" /\ Length(v) > 0

\* the stored year is the number the parameter text spells
YearIs(stored, text) ==
    text.numeric /\ text.whole /\ stored = JsNumber(text.num, TRUE)

\* C21: a list request that supplies a genre and/or a year returns only rows
\* whose genre and/or year equal the supplied value exactly, at most limit of
\* them, in ascending id order; the count statement has the predicate and
\* the filter bindings of the data statement.
C21_ListFiltersExact ==
    \A c \in Calls : Listed(c) =>
        LET params == c.req.params
            data == c.resp.data
            st == ListStatements(params, c.resp.pagination.total)
        IN  /\ \A k \in 1..Len(data) :
                /\ Supplied(params.genre) => data[k].book.genre = params.genre
                /\ Supplied(params.year) => YearIs(data[k].book.year, params.year)
            /\ Len(data) <= c.resp.pagination.limit
            /\ \A j, k \in 1..Len(data) : j < k => data[j].id < data[k].id
            /\ st.countQuery = ReplaceStar(SubSeq(st.query, 1, Len(st.query) - 4))
            /\ st.countBindings = SubSeq(st.bindings, 1, Len(st.bindings) - 2)

\* the characters of term occur, in either case, one after the other in text
Occurs(term, text) ==
    \E i \in 0..(Len(text) - Len(term)) :
        \A k \in 1..Len(term) : Fold(text[i + k]) = Fold(term[k])

\* the ids of the records one of whose fields, written as text, holds term
Holding(term) ==
    {i \in DOMAIN store :
        \E col \in ALLOWED_UPDATE_FIELDS : Occurs(term, Spelling(store[i][col]))}

\* C22: a search with a term q of 1 to 200 characters returns exactly the
\* stored records in which q occurs as a substring of title, author, genre,
\* isbn, year (as text) or description, in ascending id order, with count
\* the number of results; a missing or empty q, or a q of more than 200
\* characters, is answered 400 without any store statement.
C22_SearchReturnsSubstringMatches ==
    \A c \in Calls :
        (/\ Done(c) /\ c.req.route = "search" /\ Unhindered(c)
         /\ c.ctChecked /\ validateContentType(c.req) = NoError) =>
            IF Length(c.req.q) \in 1..MaxQuery
            THEN /\ c.resp.status = 200
                 /\ {c.resp.data[k].id : k \in 1..Len(c.resp.data)} = Holding(c.req.term)
                 /\ \A k \in 1..Len(c.resp.data) :
                        c.resp.data[k].book = store[c.resp.data[k].id]
                 /\ \A j, k \in 1..Len(c.resp.data) :
                        j < k => c.resp.data[j].id < c.resp.data[k].id
                 /\ c.resp.count = Len(c.resp.data)
            ELSE c.resp.status = 400 /\ c.stmts = <<>>

\* the header value names the media type application/json
NamesJson(ct) == ct \in {"application/json", "application/json; charset=utf-8"}

C24_EveryEventCarriesRequestId ==
    \A c \in Calls : \A k \in 1..Len(c.log) : "requestId" \in LogKeys(c.log[k])

\* invocation c ended with a response
Answered(c) == Done(c) /\ ~c.escaped

\* C25 as stated: every response to a GET request carries a cache directive
\* and only GET responses do: 60/120 seconds for list and search, 300/600
\* seconds for a single record and stats.
C25_EveryGetResponseCached ==
    \A c \in Calls :
        Answered(c) =>
            IF c.req.method = "GET"
            THEN /\ c.resp.cache # NoCache
                 /\ c.req.route \in {"collection", "search"} => c.resp.cache = ShortCache
                 /\ c.req.route \in {"single", "stats"} => c.resp.cache = LongCache
            ELSE c.resp.cache = NoCache

\* the cache directive the operation behind a 200 response gives it
CacheOf(c) ==
    CASE c.resp.status # 200 -> NoCache
      [] c.req.route = "search" -> ShortCache
      [] c.req.route = "collection" /\ c.req.method = "GET" -> ShortCache
      [] c.req.route = "single" /\ c.req.method = "GET" -> LongCache
      [] c.req.route = "stats" -> LongCache
      [] OTHER -> NoCache

\* C25 amended: a 200 response of the search route or of a list carries
\* max-age=60 with stale-while-revalidate=120, a 200 response of a GET on a
\* single record or of the stats route carries max-age=300 with
\* stale-while-revalidate=600, and every other response carries no cache
\* directive: the health response, the responses to writes and preflights,
\* and every error response, to GET requests included.
C25_CacheByOperation ==
    \A c \in Calls : Answered(c) => c.resp.cache = CacheOf(c)

C25_Witness ==
    \E c \in Calls :
        /\ Answered(c) /\ c.req.method = "GET" /\ c.req.route = "collection"
        /\ c.resp.status = 200 /\ Len(c.resp.data) = 1 /\ c.resp.pagination.total = 2
        /\ c.resp.cache = "public, max-age=60, stale-while-revalidate=120"

\* C26: validateBook passes the isbn check exactly when isbn is absent or
\* empty, or is a string of exactly 10 digits, exactly 13 digits, or 13 to 17
\* characters each a digit or a hyphen; every other provided isbn (abc, a
\* 20-digit string, a non-string value) fails with ValidationError.
C26_IsbnShapeEnforced ==
    probe.op = "validateIsbn" =>
        IF probe.isbn.t \in {"undefined", "null"} \/ IsEmptyString(probe.isbn)
           \/ IsIsbnText(probe.isbn)
        THEN probe.out = NoError
        ELSE probe.out.cls = "ValidationError"

\* what C27 says of a step of a PUT invocation: no record appears or
\* disappears, every record but the addressed one keeps every field, and the
\* addressed record keeps every field the payload does not name
C27_Step ==
    store' # store =>
        \A c \in Calls, d \in BagToSet(calls') :
            c.req.method = "PUT" /\ c.req.route = "single" /\ Become(c, d) =>
                /\ DOMAIN store' = DOMAIN store
                /\ \A i \in DOMAIN store :
                        \A f \in ALLOWED_UPDATE_FIELDS :
                            (i # c.req.id \/ f \notin AllowListedKeys(c.req.body)) =>
                                store'[i][f] = store[i][f]

\* C27: a successful PUT on a record changes only the allow-listed fields
\* named in its payload, on that record alone: the record stays under its
\* id, its other fields and every other record are unchanged, also when the
\* payload has an id key or other unknown keys.
C27_PutChangesNamedFieldsOnly == [][C27_Step]_vars

C27_Witness ==
    \E c \in Calls :
        /\ Done(c) /\ c.req.method = "PUT" /\ c.req.route = "single"
        /\ c.req.body.extra = {"id"} /\ AllowListedKeys(c.req.body) = {"title"}
        /\ c.resp.status = 200 /\ c.resp.kind = "book" /\ c.resp.id = c.req.id
        /\ c.resp.book.title = JsText(0, 2, 0)
        /\ c.resp.book.author = JsText(0, 1, 0)
        /\ store[c.req.id] = c.resp.book
        /\ Cardinality(DOMAIN store) = 2

\* the record of a candidate as C28 describes it: title and author trimmed;
\* an optional field as submitted (text trimmed, a year numeral as its
\* number) when one was provided, and NULL otherwise
AsSubmitted(book) ==
    [f \in ALLOWED_UPDATE_FIELDS |->
        IF f \in {"title", "author"} THEN Trim(book[f])
        ELSE IF ~Provided(book[f]) THEN JsNull
        ELSE IF book[f].t # "string" THEN book[f]
        ELSE IF f = "year" /\ book[f].whole THEN JsNumber(book[f].num, TRUE)
        ELSE Trim(book[f])]

\* a GET answered 200 yields the record as stored
C28_State ==
    \A c \in Calls :
        OnSingleBook(c, {"GET"}) /\ c.resp.status = 200 =>
            c.resp.kind = "book" /\ c.resp.book = store[c.req.id]

\* the INSERT of a creation adds one record, that of the candidate
C28_Step ==
    \A c \in Calls, d \in BagToSet(calls') :
        Become(c, d) /\ c.pc = "insert" /\ d.pc = "inserted" =>
            /\ d.lastId \notin DOMAIN store
            /\ DOMAIN store' = DOMAIN store \cup {d.lastId}
            /\ store'[d.lastId] = AsSubmitted(c.req.body.fields)

\* C28: for every candidate that passes create validation, a successful POST
\* stores exactly one new record whose title and author are the submitted
\* values trimmed and whose year, isbn, genre and description each equal the
\* submitted value (trimmed, for text) when one was provided and the
\* absent-value marker otherwise; a following GET on the returned id yields
\* those values.
C28_PostStoresSubmitted == []C28_State /\ [][C28_Step]_vars

\* C29: under any interleaving with other requests, every POST answered 201
\* and every PUT answered 200 carries in its body a record whose id is the
\* created or addressed id; a successful write response never has an empty
\* body.
C29_WriteResponseCarriesRecord ==
    \A c \in Calls :
        /\ (/\ Done(c) /\ c.req.method = "POST" /\ c.req.route = "collection"
            /\ c.resp.status = 201) =>
                c.resp.kind = "book" /\ c.resp.id \in 1..nextId
        /\ OnSingleBook(c, {"PUT"}) /\ c.resp.status = 200 =>
                c.resp.kind = "book" /\ c.resp.id = c.req.id

\* an INSERT or UPDATE of the invocation has run: the handler issued the
\* statement and, after it, the read-back that follows a successful run()
Wrote(c) ==
    \E k \in 1..(Len(c.stmts) - 1) :
        c.stmts[k] \in {"INSERT", "UPDATE"} /\ c.stmts[k + 1] = "SELECT"

\* C30: a request answered with an error status (4xx, 500 or 504) has not
\* modified the store: the stored records and all their fields are as before
\* the request.
C30_ErrorsLeaveStoreUnchanged ==
    \A c \in Calls : Answered(c) /\ c.resp.status >= 400 => ~Wrote(c)

====
